---- MODULE Spec2Model ----
(***************************************************************************)
(* Change-notification core of the consensus set                           *)
(* (modules/consensus/subscribe.go): the change log, the change computer   *)
(* computeConsensusChange, the notifier readlockUpdateSubscribers, the     *)
(* direct query ConsensusChange and the two subscription entry points.     *)
(***************************************************************************)
EXTENDS Integers, Sequences, FiniteSets, TLC

\* ---------------------------------------------------------------- bounds
NumBlocks  == 5     \* block IDs known to the block store: 1..NumBlocks
MaxDiffs   == 2     \* longest stored diff sequence of one kind in one block
MaxLog     == 2     \* longest change log the appenders build
MaxRevert  == 2     \* most blocks reverted by an entry given to the change computer
MaxApply   == 2     \* most blocks applied by an entry given to the change computer
MaxCalls   == 3     \* callbacks a subscriber has had when a direct notification call is still made

\* ------------------------------------------------------ program constants
DiffApply  == TRUE  \* modules.DiffApply
DiffRevert == FALSE \* modules.DiffRevert

BlockIDs     == 1..NumBlocks
GenesisID    == 1
ZeroBlockID  == 0   \* ID of the zero-valued block
None         == "none"

Writers   == {"w1", "w2"}   \* threads running the append path
Subs      == {"s1", "s2"}   \* threads calling ConsensusSetSubscribe(self)
DSubs     == {"d1"}         \* threads calling ConsensusSetDigestSubscribe(self)
Queriers  == {"q1"}         \* threads calling ConsensusChange(i)
AllDSubs  == {"d1", "d2"}   \* every thread that may call ConsensusSetDigestSubscribe
Threads   == Writers \cup Subs \cup AllDSubs \cup Queriers

VARIABLES
    changeLog,          \* cs.changeLog: sequence of changeEntry
    subscribers,        \* cs.subscribers, in registration order
    digestSubscribers,  \* cs.digestSubscribers, in registration order
    mu,                 \* cs.mu, the demote mutex
    blockMap,           \* db bucket BlockMap: block ID -> processed block
    blockPath,          \* db bucket BlockPath: height (from 0) -> block ID
    DEBUG,              \* build.DEBUG
    pc,                 \* position of every thread
    idx,                \* loop position of every thread
    rng,                \* the slice a thread's range loop iterates over
    cc,                 \* local cc of a notification pass
    ce,                 \* argument ce of a readlockUpdateSubscribers call
    arg,                \* argument i of a thread's ConsensusChange call
    ret,                \* result of a thread's last ConsensusChange call
    received,           \* per subscriber: the ProcessConsensusChange calls
    digests             \* per digest subscriber: the ProcessConsensusDigest calls

vars == <<changeLog, subscribers, digestSubscribers, mu, blockMap, blockPath,
          DEBUG, pc, idx, rng, cc, ce, arg, ret, received, digests>>

\* ------------------------------------------------------------ data model
\* the five diff sequences of a processed block and of a ConsensusChange
DiffKindFields == {"SiacoinOutputDiffs", "FileContractDiffs", "SiafundOutputDiffs",
                   "DelayedSiacoinOutputDiffs", "SiafundPoolDiffs"}

\* types.Block, reduced to what ID() hashes
Block(id) == [ID |-> id]

\* changeEntry
changeEntry(rb, ab) == [revertedBlocks |-> rb, appliedBlocks |-> ab]

\* modules.ConsensusChange{}
EmptyConsensusChange ==
    [RevertedBlocks |-> <<>>, AppliedBlocks |-> <<>>,
     SiacoinOutputDiffs |-> <<>>, FileContractDiffs |-> <<>>,
     SiafundOutputDiffs |-> <<>>, DelayedSiacoinOutputDiffs |-> <<>>,
     SiafundPoolDiffs |-> <<>>]

\* the zero-valued processed block
ZeroProcessedBlock ==
    [Block |-> Block(ZeroBlockID),
     SiacoinOutputDiffs |-> <<>>, FileContractDiffs |-> <<>>,
     SiafundOutputDiffs |-> <<>>, DelayedSiacoinOutputDiffs |-> <<>>,
     SiafundPoolDiffs |-> <<>>]

\* ------------------------------------------------ block store (read only)
\* getBlockMap(tx, id): the stored record of block id, or an error
getBlockMap(id) ==
    IF id \in DOMAIN blockMap
    THEN [pb |-> blockMap[id], err |-> FALSE]
    ELSE [pb |-> ZeroProcessedBlock, err |-> TRUE]

\* blockHeight(tx)
blockHeight == Len(blockPath) - 1

\* getPath(tx, h)
getPath(h) ==
    IF h + 1 \in DOMAIN blockPath /\ blockPath[h + 1] # ZeroBlockID
    THEN [id |-> blockPath[h + 1], err |-> FALSE]
    ELSE [id |-> ZeroBlockID, err |-> TRUE]

\* ------------------------------------------------------- change computer
\* mutant: the diffs of a reverted block are walked forwards
revertDirectional_Forward(diffs) ==
    [k \in 1..Len(diffs) |-> [diffs[k] EXCEPT !.Direction = ~@]]

\* for i := len(diffs)-1; i >= 0; i-- { d := diffs[i]; d.Direction = !d.Direction; append }
revertDirectional(diffs) ==
    [k \in 1..Len(diffs) |->
        [diffs[Len(diffs) + 1 - k] EXCEPT !.Direction = ~@]]

\* mutant: the pool diffs are inverted like the other kinds
revertPool_Inverted(diffs) ==
    [k \in 1..Len(diffs) |->
        [diffs[Len(diffs) + 1 - k] EXCEPT !.Direction = ~@]]

\* for i := len(diffs)-1; i >= 0; i-- { d := diffs[i]; d.Direction = DiffRevert; append }
revertPool(diffs) ==
    [k \in 1..Len(diffs) |->
        [diffs[Len(diffs) + 1 - k] EXCEPT !.Direction = DiffRevert]]

\* body of the loop over revertedBlocks, after the lookup
revertBlock(c, pb) ==
    [c EXCEPT
        !.RevertedBlocks            = Append(@, pb.Block),
        !.SiacoinOutputDiffs        = @ \o revertDirectional(pb.SiacoinOutputDiffs),
        !.FileContractDiffs         = @ \o revertDirectional(pb.FileContractDiffs),
        !.SiafundOutputDiffs        = @ \o revertDirectional(pb.SiafundOutputDiffs),
        !.DelayedSiacoinOutputDiffs = @ \o revertDirectional(pb.DelayedSiacoinOutputDiffs),
        !.SiafundPoolDiffs          = @ \o revertPool(pb.SiafundPoolDiffs)]

\* mutant: the file contract diffs of an applied block are left out
applyBlock_NoFileContracts(c, pb) ==
    [c EXCEPT
        !.AppliedBlocks             = Append(@, pb.Block),
        !.SiacoinOutputDiffs        = @ \o pb.SiacoinOutputDiffs,
        !.SiafundOutputDiffs        = @ \o pb.SiafundOutputDiffs,
        !.DelayedSiacoinOutputDiffs = @ \o pb.DelayedSiacoinOutputDiffs,
        !.SiafundPoolDiffs          = @ \o pb.SiafundPoolDiffs]

\* body of the loop over appliedBlocks, after the lookup
applyBlock(c, pb) ==
    [c EXCEPT
        !.AppliedBlocks             = Append(@, pb.Block),
        !.SiacoinOutputDiffs        = @ \o pb.SiacoinOutputDiffs,
        !.FileContractDiffs         = @ \o pb.FileContractDiffs,
        !.SiafundOutputDiffs        = @ \o pb.SiafundOutputDiffs,
        !.DelayedSiacoinOutputDiffs = @ \o pb.DelayedSiacoinOutputDiffs,
        !.SiafundPoolDiffs          = @ \o pb.SiafundPoolDiffs]

\* for _, revertedBlockID := range cs.changeLog[i].revertedBlocks { ... }
\* acc = [cc, panic, lookups]; a lookup error panics in debug builds and is
\* otherwise dropped (the loop's err shadows the named result); lookups
\* records the IDs passed to getBlockMap
RECURSIVE revertLoop(_, _)
revertLoop(ids, acc) ==
    IF ids = <<>> \/ acc.panic THEN acc
    ELSE LET r == getBlockMap(Head(ids))
             l == [acc EXCEPT !.lookups = Append(@, Head(ids))]
         IN  IF DEBUG /\ r.err THEN [l EXCEPT !.panic = TRUE]
             ELSE revertLoop(Tail(ids), [l EXCEPT !.cc = revertBlock(@, r.pb)])

\* for _, appliedBlockID := range cs.changeLog[i].appliedBlocks { ... }
RECURSIVE applyLoop(_, _)
applyLoop(ids, acc) ==
    IF ids = <<>> \/ acc.panic THEN acc
    ELSE LET r == getBlockMap(Head(ids))
             l == [acc EXCEPT !.lookups = Append(@, Head(ids))]
         IN  IF DEBUG /\ r.err THEN [l EXCEPT !.panic = TRUE]
             ELSE applyLoop(Tail(ids), [l EXCEPT !.cc = applyBlock(@, r.pb)])

\* mutant: the applied blocks are processed before the reverted blocks
computeConsensusChange_ApplyFirst(i) ==
    IF i < 0 \/ i >= Len(changeLog)
    THEN [cc |-> EmptyConsensusChange, err |-> TRUE, panic |-> FALSE,
          lookups |-> <<>>]
    ELSE LET a == applyLoop(changeLog[i + 1].appliedBlocks,
                            [cc |-> EmptyConsensusChange, panic |-> FALSE,
                             lookups |-> <<>>])
             r == revertLoop(changeLog[i + 1].revertedBlocks, a)
         IN  [cc |-> r.cc, err |-> FALSE, panic |-> r.panic,
              lookups |-> r.lookups]

\* mutant: the lower bound check is off by one
computeConsensusChange_LowerBound(i) ==
    IF i <= 0 \/ i >= Len(changeLog)
    THEN [cc |-> EmptyConsensusChange, err |-> TRUE, panic |-> FALSE,
          lookups |-> <<>>]
    ELSE LET r == revertLoop(changeLog[i + 1].revertedBlocks,
                             [cc |-> EmptyConsensusChange, panic |-> FALSE,
                              lookups |-> <<>>])
             a == applyLoop(changeLog[i + 1].appliedBlocks, r)
         IN  [cc |-> a.cc, err |-> FALSE, panic |-> a.panic,
              lookups |-> a.lookups]

\* computeConsensusChange(tx, i); indices are 0-based, as in the source
computeConsensusChange(i) ==
    IF i < 0 \/ i >= Len(changeLog)
    THEN [cc |-> EmptyConsensusChange, err |-> TRUE, panic |-> FALSE,
          lookups |-> <<>>]
    ELSE LET r == revertLoop(changeLog[i + 1].revertedBlocks,
                             [cc |-> EmptyConsensusChange, panic |-> FALSE,
                              lookups |-> <<>>])
             a == applyLoop(changeLog[i + 1].appliedBlocks, r)
         IN  [cc |-> a.cc, err |-> FALSE, panic |-> a.panic,
              lookups |-> a.lookups]

\* the caller's result variables before ConsensusChange returns
NoResult == [cc |-> EmptyConsensusChange, err |-> FALSE, lookups |-> <<>>]

\* ------------------------------------------------------------ demote mutex
Unlocked == [holder |-> None, demoted |-> FALSE, readers |-> {}]

\* mutant: cs.mu.Lock() returns although another thread holds the lock demoted
CanLock_PastDemoted == (mu.holder = None \/ mu.demoted) /\ mu.readers = {}

\* cs.mu.Lock() can return: no exclusive or demoted holder, no reader
CanLock == mu.holder = None /\ mu.readers = {}

\* mutant: a demoted hold still excludes readers
CanRLock_Exclusive == mu.holder = None

\* cs.mu.RLock() can return: nobody holds the lock exclusively
CanRLock == mu.holder = None \/ mu.demoted

\* mutant: Unlock instead of Demote
Demoted_Released(t) == [mu EXCEPT !.holder = None, !.demoted = FALSE]

\* mutant: the demotion gives the hold up
Demoted_NoHolder(t) == [mu EXCEPT !.holder = None, !.demoted = TRUE]

\* cs.mu.Lock() followed by cs.mu.Demote(), by thread t
Demoted(t) == [mu EXCEPT !.holder = t, !.demoted = TRUE]

\* cs.mu.DemotedUnlock()
DemotedUnlock == [mu EXCEPT !.holder = None, !.demoted = FALSE]

\* an unrecovered panic ends the whole process
Running == \A t \in Threads : pc[t] # "panic"

\* the call subscriber.ProcessConsensusChange(c); for the record only: i is
\* the change-log index that c was computed from, by the caller
ProcessConsensusChange(s, i, c, by) ==
    [received EXCEPT ![s] = Append(@, [i |-> i, cc |-> c, by |-> by])]

\* the call ds.ProcessConsensusDigest(revertedIDs, appliedIDs)
ProcessConsensusDigest(d, r, a) ==
    [digests EXCEPT ![d] = Append(@, [reverted |-> r, applied |-> a])]

\* Block.ID()
BlockID(b) == b.ID

\* for _, b := range blocks { ids = append(ids, b.ID()) }
IDsOf(blocks) == [k \in 1..Len(blocks) |-> BlockID(blocks[k])]

\* ------------------------------------------------------------ append path
\* number of blocks applied so far, genesis included
RECURSIVE AppliedCount(_)
AppliedCount(log) ==
    IF log = <<>> THEN 1
    ELSE Len(Head(log).appliedBlocks) + AppliedCount(Tail(log))

\* the entry the acceptance engine produces when it reverts the r blocks at
\* the tip (tip first) and applies a blocks not seen before
NextEntry(r, a) ==
    changeEntry([k \in 1..r |-> blockPath[Len(blockPath) + 1 - k]],
                [k \in 1..a |-> AppliedCount(changeLog) + k])

\* what the acceptance engine does to the chain: it extends the tip by one
\* block, or replaces the tip by a fork of two blocks (reverted, applied)
Reorganisations == {<<0, 1>>, <<1, 2>>}

\* the genesis block is never reverted, block IDs are not reused
CanAccept(r, a) ==
    /\ r <= Len(blockPath) - 1
    /\ AppliedCount(changeLog) + a <= NumBlocks

\* the best path after entry e
PathAfter(e) ==
    SubSeq(blockPath, 1, Len(blockPath) - Len(e.revertedBlocks)) \o e.appliedBlocks

\* The append path: under cs.mu.Lock() the entry is appended to the change
\* log and the path is updated, then the lock is demoted for the
\* notification pass.
AcceptBlock(w, r, a) ==
    /\ Running
    /\ pc[w] = "idle"
    /\ Len(changeLog) < MaxLog
    /\ CanAccept(r, a)
    /\ CanLock
    /\ changeLog' = Append(changeLog, NextEntry(r, a))
    /\ blockPath' = PathAfter(NextEntry(r, a))
    /\ mu' = Demoted(w)
    /\ ce' = [ce EXCEPT ![w] = NextEntry(r, a)]
    /\ pc' = [pc EXCEPT ![w] = "notify"]
    /\ UNCHANGED <<subscribers, digestSubscribers, blockMap, DEBUG, idx, rng,
                   cc, arg, ret, received, digests>>

\* mutant: the change is computed from the entry passed as argument
UpdateCompute_OfArgument(w) ==
    /\ Running
    /\ pc[w] = "notify"
    /\ LET i == Len(changeLog) - 1
           r == revertLoop(ce[w].revertedBlocks,
                           [cc |-> EmptyConsensusChange, panic |-> FALSE,
                            lookups |-> <<>>])
           a == applyLoop(ce[w].appliedBlocks, r)
       IN  /\ arg' = [arg EXCEPT ![w] = i]
           /\ cc' = [cc EXCEPT ![w] = a.cc]
           /\ IF a.panic
              THEN pc' = [pc EXCEPT ![w] = "panic"] /\ UNCHANGED <<rng, idx>>
              ELSE /\ pc' = [pc EXCEPT ![w] = "subscribers"]
                   /\ rng' = [rng EXCEPT ![w] = subscribers]
                   /\ idx' = [idx EXCEPT ![w] = 1]
    /\ UNCHANGED <<changeLog, subscribers, digestSubscribers, mu, blockMap,
                   blockPath, DEBUG, ce, ret, received, digests>>

\* readlockUpdateSubscribers, lines 95-103: compute the change of the last
\* entry of the log; an error panics in debug builds and is otherwise dropped
UpdateCompute(w) ==
    /\ Running
    /\ pc[w] = "notify"
    /\ LET i == Len(changeLog) - 1
           r == computeConsensusChange(i)
       IN  /\ arg' = [arg EXCEPT ![w] = i]
           /\ cc' = [cc EXCEPT ![w] = r.cc]
           /\ IF r.panic \/ (r.err /\ DEBUG)
              THEN pc' = [pc EXCEPT ![w] = "panic"] /\ UNCHANGED <<rng, idx>>
              ELSE /\ pc' = [pc EXCEPT ![w] = "subscribers"]
                   /\ rng' = [rng EXCEPT ![w] = subscribers]
                   /\ idx' = [idx EXCEPT ![w] = 1]
    /\ UNCHANGED <<changeLog, subscribers, digestSubscribers, mu, blockMap,
                   blockPath, DEBUG, ce, ret, received, digests>>

\* mutant: the subscribers are called last registered first
UpdateSubscriber_Reversed(w) ==
    /\ Running
    /\ pc[w] = "subscribers"
    /\ idx[w] <= Len(rng[w])
    /\ received' = ProcessConsensusChange(rng[w][Len(rng[w]) + 1 - idx[w]],
                                          arg[w], cc[w], "notify")
    /\ idx' = [idx EXCEPT ![w] = @ + 1]
    /\ UNCHANGED <<changeLog, subscribers, digestSubscribers, mu, blockMap,
                   blockPath, DEBUG, ce, pc, rng, cc, arg, ret, digests>>

\* readlockUpdateSubscribers, lines 104-106: one iteration of the loop
UpdateSubscriber(w) ==
    /\ Running
    /\ pc[w] = "subscribers"
    /\ idx[w] <= Len(rng[w])
    /\ received' = ProcessConsensusChange(rng[w][idx[w]], arg[w], cc[w], "notify")
    /\ idx' = [idx EXCEPT ![w] = @ + 1]
    /\ UNCHANGED <<changeLog, subscribers, digestSubscribers, mu, blockMap,
                   blockPath, DEBUG, ce, pc, rng, cc, arg, ret, digests>>

\* readlockUpdateSubscribers, lines 108-116: the subscriber loop is over,
\* the digest loop starts
UpdateDigestIDs(w) ==
    /\ Running
    /\ pc[w] = "subscribers"
    /\ idx[w] > Len(rng[w])
    /\ pc' = [pc EXCEPT ![w] = "digests"]
    /\ rng' = [rng EXCEPT ![w] = digestSubscribers]
    /\ idx' = [idx EXCEPT ![w] = 1]
    /\ UNCHANGED <<changeLog, subscribers, digestSubscribers, mu, blockMap,
                   blockPath, DEBUG, ce, cc, arg, ret, received, digests>>

\* mutant: the digest is sent with the applied IDs first
UpdateDigestSubscriber_Swapped(w) ==
    /\ Running
    /\ pc[w] = "digests"
    /\ idx[w] <= Len(rng[w])
    /\ digests' = ProcessConsensusDigest(rng[w][idx[w]],
                                         IDsOf(cc[w].AppliedBlocks),
                                         IDsOf(cc[w].RevertedBlocks))
    /\ idx' = [idx EXCEPT ![w] = @ + 1]
    /\ UNCHANGED <<changeLog, subscribers, digestSubscribers, mu, blockMap,
                   blockPath, DEBUG, ce, pc, rng, cc, arg, ret, received>>

\* readlockUpdateSubscribers, lines 116-118: one iteration of the loop
UpdateDigestSubscriber(w) ==
    /\ Running
    /\ pc[w] = "digests"
    /\ idx[w] <= Len(rng[w])
    /\ digests' = ProcessConsensusDigest(rng[w][idx[w]],
                                         IDsOf(cc[w].RevertedBlocks),
                                         IDsOf(cc[w].AppliedBlocks))
    /\ idx' = [idx EXCEPT ![w] = @ + 1]
    /\ UNCHANGED <<changeLog, subscribers, digestSubscribers, mu, blockMap,
                   blockPath, DEBUG, ce, pc, rng, cc, arg, ret, received>>

\* readlockUpdateSubscribers returns and the append path releases the
\* demoted lock
UpdateReturn(w) ==
    /\ Running
    /\ pc[w] = "digests"
    /\ idx[w] > Len(rng[w])
    /\ mu' = DemotedUnlock
    /\ pc' = [pc EXCEPT ![w] = "idle"]
    /\ idx' = [idx EXCEPT ![w] = 0]
    /\ rng' = [rng EXCEPT ![w] = <<>>]
    /\ cc' = [cc EXCEPT ![w] = EmptyConsensusChange]
    /\ ce' = [ce EXCEPT ![w] = changeEntry(<<>>, <<>>)]
    /\ arg' = [arg EXCEPT ![w] = 0]
    /\ UNCHANGED <<changeLog, subscribers, digestSubscribers, blockMap,
                   blockPath, DEBUG, ret, received, digests>>

\* ------------------------------------------------------ ConsensusChange(i)
\* cs.mu.RLock()
QueryRLock(q, i) ==
    /\ Running
    /\ pc[q] \in {"idle", "returned"}
    /\ CanRLock
    /\ mu' = [mu EXCEPT !.readers = @ \cup {q}]
    /\ arg' = [arg EXCEPT ![q] = i]
    /\ ret' = [ret EXCEPT ![q] = NoResult]
    /\ pc' = [pc EXCEPT ![q] = "query"]
    /\ UNCHANGED <<changeLog, subscribers, digestSubscribers, blockMap,
                   blockPath, DEBUG, ce, idx, rng, cc, received, digests>>

\* mutant: the index is taken as 1-based
ConsensusChange_OneBased(i) ==
    LET r == computeConsensusChange(i - 1)
    IN  IF r.err THEN [r EXCEPT !.cc = EmptyConsensusChange]
        ELSE r

\* lines 129-136: the value ConsensusChange(i) returns in the current state
ConsensusChange(i) ==
    LET r == computeConsensusChange(i)
    IN  IF r.err THEN [r EXCEPT !.cc = EmptyConsensusChange]
        ELSE r

\* lines 129-137 and the deferred cs.mu.RUnlock()
QueryReturn(q) ==
    /\ Running
    /\ pc[q] = "query"
    /\ LET r == ConsensusChange(arg[q])
       IN  IF r.panic
           THEN pc' = [pc EXCEPT ![q] = "panic"] /\ UNCHANGED <<ret, mu>>
           ELSE /\ ret' = [ret EXCEPT ![q] = [cc |-> r.cc, err |-> r.err,
                                                lookups |-> r.lookups]]
                /\ mu' = [mu EXCEPT !.readers = @ \ {q}]
                /\ pc' = [pc EXCEPT ![q] = "returned"]
    /\ UNCHANGED <<changeLog, subscribers, digestSubscribers, blockMap,
                   blockPath, DEBUG, ce, idx, rng, cc, arg, received, digests>>

\* --------------------------------------------------- ConsensusSetSubscribe
\* mutant: the lock is released, not demoted, before the backfill
SubscribeRegister_Unlocked(s) ==
    /\ Running
    /\ pc[s] = "idle"
    /\ CanLock
    /\ subscribers' = Append(subscribers, s)
    /\ mu' = mu
    /\ pc' = [pc EXCEPT ![s] = "backfill"]
    /\ rng' = [rng EXCEPT ![s] = changeLog]
    /\ idx' = [idx EXCEPT ![s] = 0]
    /\ UNCHANGED <<changeLog, digestSubscribers, blockMap, blockPath, DEBUG, ce,
                   cc, arg, ret, received, digests>>

\* lines 173-176: lock, register, demote
SubscribeRegister(s) ==
    /\ Running
    /\ pc[s] = "idle"
    /\ CanLock
    /\ subscribers' = Append(subscribers, s)
    /\ mu' = Demoted(s)
    /\ pc' = [pc EXCEPT ![s] = "backfill"]
    /\ rng' = [rng EXCEPT ![s] = changeLog]
    /\ idx' = [idx EXCEPT ![s] = 0]
    /\ UNCHANGED <<changeLog, digestSubscribers, blockMap, blockPath, DEBUG, ce,
                   cc, arg, ret, received, digests>>

\* mutant: the backfill computes the last index, as the notifier does
SubscribeBackfill_LastIndex(s) ==
    /\ Running
    /\ pc[s] = "backfill"
    /\ idx[s] < Len(rng[s])
    /\ LET r == computeConsensusChange(Len(changeLog) - 1)
       IN  IF r.panic \/ (r.err /\ DEBUG)
           THEN pc' = [pc EXCEPT ![s] = "panic"] /\ UNCHANGED <<received, idx>>
           ELSE /\ received' = ProcessConsensusChange(s, idx[s], r.cc, "backfill")
                /\ idx' = [idx EXCEPT ![s] = @ + 1]
                /\ pc' = pc
    /\ UNCHANGED <<changeLog, subscribers, digestSubscribers, mu, blockMap,
                   blockPath, DEBUG, ce, rng, cc, arg, ret, digests>>

\* lines 179-185: one iteration of the backfill loop
SubscribeBackfill(s) ==
    /\ Running
    /\ pc[s] = "backfill"
    /\ idx[s] < Len(rng[s])
    /\ LET r == computeConsensusChange(idx[s])
       IN  IF r.panic \/ (r.err /\ DEBUG)
           THEN pc' = [pc EXCEPT ![s] = "panic"] /\ UNCHANGED <<received, idx>>
           ELSE /\ received' = ProcessConsensusChange(s, idx[s], r.cc, "backfill")
                /\ idx' = [idx EXCEPT ![s] = @ + 1]
                /\ pc' = pc
    /\ UNCHANGED <<changeLog, subscribers, digestSubscribers, mu, blockMap,
                   blockPath, DEBUG, ce, rng, cc, arg, ret, digests>>

\* the loop is over: deferred cs.mu.DemotedUnlock(), return
SubscribeReturn(s) ==
    /\ Running
    /\ pc[s] = "backfill"
    /\ idx[s] >= Len(rng[s])
    /\ mu' = DemotedUnlock
    /\ pc' = [pc EXCEPT ![s] = "done"]
    /\ idx' = [idx EXCEPT ![s] = 0]
    /\ rng' = [rng EXCEPT ![s] = <<>>]
    /\ UNCHANGED <<changeLog, subscribers, digestSubscribers, blockMap,
                   blockPath, DEBUG, ce, cc, arg, ret, received, digests>>

\* --------------------------------------------- ConsensusSetDigestSubscribe
\* mutant: the subscriber is added to the list twice
DigestRegister_Twice(d) ==
    /\ Running
    /\ pc[d] = "idle"
    /\ CanLock
    /\ digestSubscribers' = Append(Append(digestSubscribers, d), d)
    /\ mu' = Demoted(d)
    /\ pc' = [pc EXCEPT ![d] = "baseline"]
    /\ UNCHANGED <<changeLog, subscribers, blockMap, blockPath, DEBUG, ce, idx,
                   rng, cc, arg, ret, received, digests>>

\* lines 143-146: lock, register, demote
DigestRegister(d) ==
    /\ Running
    /\ pc[d] = "idle"
    /\ CanLock
    /\ digestSubscribers' = Append(digestSubscribers, d)
    /\ mu' = Demoted(d)
    /\ pc' = [pc EXCEPT ![d] = "baseline"]
    /\ UNCHANGED <<changeLog, subscribers, blockMap, blockPath, DEBUG, ce, idx,
                   rng, cc, arg, ret, received, digests>>

\* for i := 0; i <= height; i++ { id, err := getPath(tx, i); ... }
\* acc = [path, err]; the loop returns at the first error
RECURSIVE currentPath(_, _, _)
currentPath(i, height, acc) ==
    IF i > height \/ acc.err THEN acc
    ELSE LET g == getPath(i) IN
         IF g.err THEN [acc EXCEPT !.err = TRUE]
         ELSE currentPath(i + 1, height, [acc EXCEPT !.path = Append(@, g.id)])

\* mutant: after a failed path read the IDs read so far are sent
DigestBaseline_Partial(d) ==
    /\ Running
    /\ pc[d] = "baseline"
    /\ LET p == currentPath(0, blockHeight, [path |-> <<>>, err |-> FALSE])
       IN  /\ digests' = ProcessConsensusDigest(d, <<>>, p.path)
           /\ pc' = [pc EXCEPT ![d] = IF p.err /\ DEBUG THEN "panic"
                                      ELSE "unlock"]
    /\ UNCHANGED <<changeLog, subscribers, digestSubscribers, mu, blockMap,
                   blockPath, DEBUG, ce, idx, rng, cc, arg, ret, received>>

\* mutant: the path loop starts at height 1 instead of height 0
DigestBaseline_FromHeightOne(d) ==
    /\ Running
    /\ pc[d] = "baseline"
    /\ LET p == currentPath(1, blockHeight, [path |-> <<>>, err |-> FALSE])
       IN  IF p.err
           THEN /\ pc' = [pc EXCEPT ![d] = IF DEBUG THEN "panic" ELSE "unlock"]
                /\ UNCHANGED digests
           ELSE /\ digests' = ProcessConsensusDigest(d, <<>>, p.path)
                /\ pc' = [pc EXCEPT ![d] = "unlock"]
    /\ UNCHANGED <<changeLog, subscribers, digestSubscribers, mu, blockMap,
                   blockPath, DEBUG, ce, idx, rng, cc, arg, ret, received>>

\* lines 148-164: read the current path and send it as the first digest
DigestBaseline(d) ==
    /\ Running
    /\ pc[d] = "baseline"
    /\ LET p == currentPath(0, blockHeight, [path |-> <<>>, err |-> FALSE])
       IN  IF p.err
           THEN /\ pc' = [pc EXCEPT ![d] = IF DEBUG THEN "panic" ELSE "unlock"]
                /\ UNCHANGED digests
           ELSE /\ digests' = ProcessConsensusDigest(d, <<>>, p.path)
                /\ pc' = [pc EXCEPT ![d] = "unlock"]
    /\ UNCHANGED <<changeLog, subscribers, digestSubscribers, mu, blockMap,
                   blockPath, DEBUG, ce, idx, rng, cc, arg, ret, received>>

\* deferred cs.mu.DemotedUnlock(), return
DigestReturn(d) ==
    /\ Running
    /\ pc[d] = "unlock"
    /\ mu' = DemotedUnlock
    /\ pc' = [pc EXCEPT ![d] = "done"]
    /\ UNCHANGED <<changeLog, subscribers, digestSubscribers, blockMap,
                   blockPath, DEBUG, ce, idx, rng, cc, arg, ret, received, digests>>

\* ------------------------------------------------------------------ inputs
\* direction patterns of a stored diff sequence
Patterns == UNION { [1..k -> BOOLEAN] : k \in 0..MaxDiffs }

\* the stored diffs of one kind of block b with direction pattern pat
StoredDiffs(b, kind, pat) ==
    [k \in 1..Len(pat) |-> [ID |-> <<b, kind, k>>, Direction |-> pat[k]]]

\* the processed block of b: pattern d for the four directional kinds,
\* pattern p for the siafund pool diffs
ProcessedBlock(b, d, p) ==
    [Block |-> Block(b),
     SiacoinOutputDiffs        |-> StoredDiffs(b, "sco", d),
     FileContractDiffs         |-> StoredDiffs(b, "fc", d),
     SiafundOutputDiffs        |-> StoredDiffs(b, "sfo", d),
     DelayedSiacoinOutputDiffs |-> StoredDiffs(b, "dsco", d),
     SiafundPoolDiffs          |-> StoredDiffs(b, "sfp", p)]

\* a block store holding every block: odd blocks store pattern d1 in the
\* directional kinds and d2 in the pool diffs, even blocks the other way round
StoreOf(d1, d2) ==
    [b \in BlockIDs |-> IF b % 2 = 1 THEN ProcessedBlock(b, d1, d2)
                                     ELSE ProcessedBlock(b, d2, d1)]

\* the second pattern is one of two fixed ones
Stores == { StoreOf(d1, d2) : d1 \in Patterns,
                              d2 \in {<<>>, <<DiffRevert, DiffApply>>} }

Range(f) == { f[x] : x \in DOMAIN f }

\* change entries as inputs of the change computer: the r blocks below and
\* including block k are reverted, tip first, and the a blocks after block
\* m >= k are applied; the genesis block is never reverted
Entries ==
    { changeEntry([j \in 1..x[1] |-> x[3] + 1 - j], [j \in 1..x[2] |-> x[4] + j]) :
        x \in { y \in (0..MaxRevert) \X (0..MaxApply) \X BlockIDs \X BlockIDs :
                  /\ y[3] - y[1] >= GenesisID
                  /\ y[4] >= y[3]
                  /\ y[4] + y[2] <= NumBlocks } }

\* the state of the threads before any call
InitThreads ==
    /\ mu = Unlocked
    /\ pc = [t \in Threads |-> "idle"]
    /\ idx = [t \in Threads |-> 0]
    /\ rng = [t \in Threads |-> <<>>]
    /\ cc = [t \in Writers |-> EmptyConsensusChange]
    /\ ce = [t \in Writers |-> changeEntry(<<>>, <<>>)]
    /\ arg = [t \in Threads |-> 0]
    /\ ret = [t \in Queriers |-> NoResult]
    /\ received = [t \in Subs |-> <<>>]
    /\ digests = [t \in AllDSubs |-> <<>>]

\* ---------------------------------------------------------- specifications
\* the consensus set after construction: empty log, genesis at height 0
Init ==
    /\ changeLog = <<>>
    /\ subscribers = <<>>
    /\ digestSubscribers = <<>>
    /\ blockMap = StoreOf(<<DiffApply, DiffRevert>>, <<DiffRevert>>)
    /\ blockPath = <<GenesisID>>
    /\ DEBUG \in BOOLEAN
    /\ InitThreads

Next ==
    \/ \E w \in Writers, x \in Reorganisations : AcceptBlock(w, x[1], x[2])
    \/ \E w \in Writers : UpdateCompute(w)
    \/ \E w \in Writers : UpdateSubscriber(w)
    \/ \E w \in Writers : UpdateDigestIDs(w)
    \/ \E w \in Writers : UpdateDigestSubscriber(w)
    \/ \E w \in Writers : UpdateReturn(w)
    \/ \E q \in Queriers, i \in -1..MaxLog : QueryRLock(q, i)
    \/ \E q \in Queriers : QueryReturn(q)
    \/ \E s \in Subs : SubscribeRegister(s)
    \/ \E s \in Subs : SubscribeBackfill(s)
    \/ \E s \in Subs : SubscribeReturn(s)
    \/ \E d \in DSubs : DigestRegister(d)
    \/ \E d \in DSubs : DigestBaseline(d)
    \/ \E d \in DSubs : DigestReturn(d)

Spec == Init /\ [][Next]_vars

\* the change computer on bounded inputs: any store, any log of one entry or
\* none, queried at any index
InitCompute ==
    /\ changeLog \in {<<>>} \cup { <<e>> : e \in Entries }
    /\ subscribers = <<>>
    /\ digestSubscribers = <<>>
    /\ blockMap \in Stores
    /\ blockPath = <<GenesisID>>
    /\ DEBUG \in BOOLEAN
    /\ InitThreads

NextCompute ==
    \/ \E q \in Queriers, i \in -1..MaxLog : QueryRLock(q, i)
    \/ \E q \in Queriers : QueryReturn(q)

SpecCompute == InitCompute /\ [][NextCompute]_vars

\* a consensus set whose database has lost a record, in either build:
\* the record of a block that the next entries apply and revert, or the
\* path entry of height 1 under a log that applied blocks 2 and 3
LostBlocks == {2, 3}

InitCorrupt ==
    /\ subscribers = <<>>
    /\ digestSubscribers = <<>>
    /\ DEBUG \in BOOLEAN
    /\ InitThreads
    /\ \/ /\ changeLog = <<>>
          /\ blockPath = <<GenesisID>>
          /\ \E lost \in LostBlocks :
                blockMap = [b \in BlockIDs \ {lost} |->
                              StoreOf(<<DiffApply, DiffRevert>>, <<DiffRevert>>)[b]]
       \/ /\ changeLog = <<changeEntry(<<>>, <<2, 3>>)>>
          /\ blockPath = <<GenesisID, ZeroBlockID, 3>>
          /\ blockMap = StoreOf(<<DiffApply, DiffRevert>>, <<DiffRevert>>)

SpecCorrupt == InitCorrupt /\ [][Next]_vars

\* ----------------------------------------------------- re-entrant callbacks
\* threads that run subscriber callbacks: passes and backfills
Callers == Writers \cup Subs

\* a thread calls the append path, which begins with cs.mu.Lock()
CallAccept(w) ==
    /\ Running
    /\ pc[w] = "idle"
    /\ Len(changeLog) < MaxLog
    /\ pc' = [pc EXCEPT ![w] = "lock"]
    /\ UNCHANGED <<changeLog, subscribers, digestSubscribers, mu, blockMap,
                   blockPath, DEBUG, ce, idx, rng, cc, arg, ret, received, digests>>

\* the callback that thread t is running (lines 105, 117, 184) calls the
\* append path on the same thread
Reenter(t) ==
    /\ Running
    /\ pc[t] \in {"subscribers", "digests", "backfill"}
    /\ idx[t] <= Len(rng[t])
    /\ pc' = [pc EXCEPT ![t] = "relock"]
    /\ UNCHANGED <<changeLog, subscribers, digestSubscribers, mu, blockMap,
                   blockPath, DEBUG, ce, idx, rng, cc, arg, ret, received, digests>>

\* cs.mu.Lock() of the append path returns: append, update the path, demote
AcceptLocked(t, r, a) ==
    /\ Running
    /\ pc[t] \in {"lock", "relock"}
    /\ Len(changeLog) < MaxLog
    /\ CanAccept(r, a)
    /\ CanLock
    /\ changeLog' = Append(changeLog, NextEntry(r, a))
    /\ blockPath' = PathAfter(NextEntry(r, a))
    /\ mu' = Demoted(t)
    /\ ce' = [ce EXCEPT ![t] = NextEntry(r, a)]
    /\ pc' = [pc EXCEPT ![t] = "notify"]
    /\ UNCHANGED <<subscribers, digestSubscribers, blockMap, DEBUG, idx, rng,
                   cc, arg, ret, received, digests>>

NextReentrant ==
    \/ \E w \in Writers : CallAccept(w)
    \/ \E t \in Callers : Reenter(t)
    \/ \E t \in Callers, x \in Reorganisations : AcceptLocked(t, x[1], x[2])
    \/ \E w \in Writers : UpdateCompute(w)
    \/ \E w \in Writers : UpdateSubscriber(w)
    \/ \E w \in Writers : UpdateDigestIDs(w)
    \/ \E w \in Writers : UpdateDigestSubscriber(w)
    \/ \E w \in Writers : UpdateReturn(w)
    \/ \E s \in Subs : SubscribeRegister(s)
    \/ \E s \in Subs : SubscribeBackfill(s)
    \/ \E s \in Subs : SubscribeReturn(s)
    \/ \E d \in DSubs : DigestRegister(d)
    \/ \E d \in DSubs : DigestBaseline(d)
    \/ \E d \in DSubs : DigestReturn(d)

SpecReentrant == Init /\ [][NextReentrant]_vars

\* ------------------------------------------- direct notification calls
\* readlockUpdateSubscribers(e) called under a demoted lock, lines 89-93,
\* with any entry as argument and without an append before it
NotifyCall(w, e) ==
    /\ Running
    /\ pc[w] = "idle"
    /\ \A s \in Subs : Len(received[s]) < MaxCalls
    /\ \A d \in AllDSubs : Len(digests[d]) < MaxCalls
    /\ CanLock
    /\ mu' = Demoted(w)
    /\ ce' = [ce EXCEPT ![w] = e]
    /\ pc' = [pc EXCEPT ![w] = "notify"]
    /\ UNCHANGED <<changeLog, subscribers, digestSubscribers, blockMap,
                   blockPath, DEBUG, idx, rng, cc, arg, ret, received, digests>>

NextDirect ==
    \/ \E x \in Reorganisations : AcceptBlock("w1", x[1], x[2])
    \/ \E e \in Entries : NotifyCall("w1", e)
    \/ UpdateCompute("w1")
    \/ UpdateSubscriber("w1")
    \/ UpdateDigestIDs("w1")
    \/ UpdateDigestSubscriber("w1")
    \/ UpdateReturn("w1")
    \/ SubscribeRegister("s1")
    \/ SubscribeBackfill("s1")
    \/ SubscribeReturn("s1")
    \/ DigestRegister("d1")
    \/ DigestBaseline("d1")
    \/ DigestReturn("d1")

SpecDirect == Init /\ [][NextDirect]_vars

\* one appender, one full subscriber and two digest subscribers
NextDigest ==
    \/ \E x \in Reorganisations : AcceptBlock("w1", x[1], x[2])
    \/ UpdateCompute("w1")
    \/ UpdateSubscriber("w1")
    \/ UpdateDigestIDs("w1")
    \/ UpdateDigestSubscriber("w1")
    \/ UpdateReturn("w1")
    \/ SubscribeRegister("s1")
    \/ SubscribeBackfill("s1")
    \/ SubscribeReturn("s1")
    \/ \E d \in AllDSubs : DigestRegister(d)
    \/ \E d \in AllDSubs : DigestBaseline(d)
    \/ \E d \in AllDSubs : DigestReturn(d)

SpecDigest == Init /\ [][NextDigest]_vars

\* ================================================================= claims
\* a notification pass or a backfill is in progress in thread t
InPass(t) == pc[t] \in {"notify", "subscribers", "digests", "backfill",
                        "baseline", "unlock"}

\* number of calls of subscriber s that carry index i and came from caller by
Deliveries(s, i, by) ==
    Cardinality({ j \in 1..Len(received[s]) :
                    received[s][j].i = i /\ received[s][j].by = by })

\* C1: the indices a full subscriber has received are exactly 0,1,...,k-1 in
\* this order for some k <= len(changeLog) (no duplicate, no gap, no
\* reordering), and once its Subscribe call has returned and no pass is in
\* progress it has received every entry of the log.
C1_InOrderNoGapNoDup ==
    \A s \in Subs :
        /\ Len(received[s]) <= Len(changeLog)
        /\ \A j \in 1..Len(received[s]) : received[s][j].i = j - 1
        /\ (pc[s] = "done" /\ \A t \in Threads : ~InPass(t))
              => Len(received[s]) = Len(changeLog)

\* C1 witness: a subscriber got entry 0 by backfill and entry 1 by a later
\* notification pass
C1_Witness ==
    \E s \in Subs :
        /\ Len(received[s]) >= 2
        /\ received[s][1].by = "backfill"
        /\ received[s][2].by = "notify"

\* C2: when the backfill loop of Subscribe(s) is over (the call is about to
\* return) s has received exactly N calls, N the length of the log at
\* registration and still its length, the j-th carrying the value of
\* ConsensusChange(j).
C2_BackfillMatchesQuery ==
    \A s \in Subs :
        (pc[s] = "backfill" /\ idx[s] >= Len(rng[s])) =>
            /\ Len(rng[s]) = Len(changeLog)
            /\ Len(received[s]) = Len(changeLog)
            /\ \A j \in 0..(Len(changeLog) - 1) :
                  /\ ~ConsensusChange(j).err
                  /\ received[s][j + 1].cc = ConsensusChange(j).cc

\* C2 witness: a Subscribe call about to return after a backfill of two
\* entries with different changes
C2_Witness ==
    \E s \in Subs :
        /\ pc[s] = "backfill" /\ idx[s] >= Len(rng[s])
        /\ Len(received[s]) = 2
        /\ received[s][1].cc # received[s][2].cc

\* C3: while a notification pass or a backfill is in progress no step
\* changes the change log.
C3_NoAppendDuringPass ==
    [][(\E t \in Threads : InPass(t)) => changeLog' = changeLog]_vars

\* C3 witness: a pass has a subscriber callback pending while another
\* appender is idle and the log could still grow
C3_Witness ==
    \E w \in Writers, v \in Writers :
        /\ pc[w] = "subscribers" /\ idx[w] <= Len(rng[w])
        /\ pc[v] = "idle"
        /\ Len(changeLog) < MaxLog
        /\ CanAccept(0, 1)

\* C4: during the subscriber loop of a notification pass for the last index
\* L, exactly the subscribers registered before position idx have received
\* the change of L, each exactly once, all the same value, the change of
\* entry L; after the loop every registered subscriber has.
C4_PassInRegistrationOrder ==
    \A w \in Writers :
        pc[w] \in {"subscribers", "digests"} =>
            LET L == Len(changeLog) - 1
                done == IF pc[w] = "digests" THEN Len(subscribers) + 1 ELSE idx[w]
            IN  \A k \in 1..Len(subscribers) :
                    LET s == subscribers[k] IN
                    /\ Deliveries(s, L, "notify") = (IF k < done THEN 1 ELSE 0)
                    /\ Deliveries(s, L, "backfill") = 0
                    /\ k < done =>
                          received[s][Len(received[s])] =
                              [i |-> L, cc |-> computeConsensusChange(L).cc,
                               by |-> "notify"]

\* C4 witness: the loop of a pass is half way through two subscribers
C4_Witness ==
    \E w \in Writers :
        /\ pc[w] = "subscribers"
        /\ Len(subscribers) = 2
        /\ idx[w] = 2
        /\ Deliveries(subscribers[1], Len(changeLog) - 1, "notify") = 1

\* C5: a ConsensusChange(i) call that returns after index i was delivered to
\* a subscriber returns, without error, the change that subscriber received
\* for index i.
C5_QueryEqualsDelivered ==
    [][\A q \in Queriers :
          (pc[q] = "query" /\ pc'[q] = "returned") =>
              \A s \in Subs : \A j \in 1..Len(received[s]) :
                  received[s][j].i = arg[q] =>
                      (~ret'[q].err /\ ret'[q].cc = received[s][j].cc)]_vars

\* C5 witness: a query of index 0 has returned after index 0 was delivered
\* and a further entry was appended
C5_Witness ==
    \E s \in Subs, q \in Queriers :
        /\ pc[q] = "returned" /\ arg[q] = 0 /\ ~ret[q].err
        /\ Len(received[s]) >= 1
        /\ Len(changeLog) >= 2

\* ------------------------------------------------ claims on the computer
Directional == {"SiacoinOutputDiffs", "FileContractDiffs",
                "SiafundOutputDiffs", "DelayedSiacoinOutputDiffs"}

\* total number of stored diffs of one kind in the listed blocks
RECURSIVE StoredCount(_, _)
StoredCount(ids, kind) ==
    IF ids = <<>> THEN 0
    ELSE Len(blockMap[Head(ids)][kind]) + StoredCount(Tail(ids), kind)

Opposite(dir) == IF dir = DiffApply THEN DiffRevert ELSE DiffApply

\* a ConsensusChange call of q has returned a change of an entry of the log
Answered(q) == pc[q] = "returned" /\ ~ret[q].err

\* the entry that call was about
Asked(q) == changeLog[arg[q] + 1]

\* C6 (state part): in the change returned for an entry, the diffs of each of
\* the four directional kinds of the p-th reverted block follow those of the
\* reverted blocks listed before it, in the reverse of their stored order,
\* each with the opposite of its stored direction.
C6_RevertedReversedInverted ==
    \A q \in Queriers : Answered(q) =>
        \A kind \in Directional : \A p \in 1..Len(Asked(q).revertedBlocks) :
            LET st  == blockMap[Asked(q).revertedBlocks[p]][kind]
                off == StoredCount(SubSeq(Asked(q).revertedBlocks, 1, p - 1), kind)
                out == ret[q].cc[kind]
            IN  /\ off + Len(st) <= Len(out)
                /\ \A j \in 1..Len(st) :
                      /\ out[off + Len(st) + 1 - j].ID = st[j].ID
                      /\ out[off + Len(st) + 1 - j].Direction = Opposite(st[j].Direction)

\* C6: the above in every state, and no step changes a stored record.
C6_RevertedDiffs ==
    [] C6_RevertedReversedInverted /\ [][blockMap' = blockMap]_vars

\* C6 witness: the returned change reverts a block that stores two siacoin
\* output diffs of different directions
C6_Witness ==
    \E q \in Queriers :
        /\ Answered(q)
        /\ \E p \in 1..Len(Asked(q).revertedBlocks) :
              LET st == blockMap[Asked(q).revertedBlocks[p]].SiacoinOutputDiffs
              IN  Len(st) >= 2 /\ st[1].Direction # st[2].Direction

C8_AppliedInOrderUnchanged ==
    \A q \in Queriers : Answered(q) =>
        LET ab == Asked(q).appliedBlocks IN
        /\ ret[q].cc.AppliedBlocks = [k \in 1..Len(ab) |-> blockMap[ab[k]].Block]
        /\ \A kind \in DiffKindFields : \A p \in 1..Len(ab) :
              LET st   == blockMap[ab[p]][kind]
                  out  == ret[q].cc[kind]
                  rest == StoredCount(SubSeq(ab, p, Len(ab)), kind)
              IN  /\ rest <= Len(out)
                  /\ \A j \in 1..Len(st) : out[Len(out) - rest + j] = st[j]

\* C8 witness: the returned change applies two blocks that store diffs of
\* both directions
C8_Witness ==
    \E q \in Queriers :
        /\ Answered(q)
        /\ Len(Asked(q).appliedBlocks) = 2
        /\ \A p \in 1..2 :
              LET st == blockMap[Asked(q).appliedBlocks[p]].FileContractDiffs
              IN  Len(st) >= 2 /\ st[1].Direction # st[2].Direction

\* the block a diff was stored in
Owner(d) == d.ID[1]

\* C9: in each of the five diff sequences every stored diff of every listed
\* block occurs, and the diffs are grouped by block in the order: reverted
\* blocks as listed, then applied blocks as listed.
C9_RevertedBeforeApplied ==
    \A q \in Queriers : Answered(q) =>
        LET order == Asked(q).revertedBlocks \o Asked(q).appliedBlocks
            rank(b) == CHOOSE k \in 1..Len(order) : order[k] = b
        IN  \A kind \in DiffKindFields :
                LET out == ret[q].cc[kind] IN
                /\ Len(out) = StoredCount(order, kind)
                /\ \A x \in 1..Len(out) : \E k \in 1..Len(order) : Owner(out[x]) = order[k]
                /\ \A k \in 1..Len(order) :
                      Cardinality({ x \in 1..Len(out) : Owner(out[x]) = order[k] })
                          = Len(blockMap[order[k]][kind])
                /\ \A x, y \in 1..Len(out) :
                      x < y => rank(Owner(out[x])) <= rank(Owner(out[y]))

\* C9 witness: the returned change reverts two blocks and applies two, all
\* of them storing siacoin output diffs and pool diffs
C9_Witness ==
    \E q \in Queriers :
        /\ Answered(q)
        /\ Len(Asked(q).revertedBlocks) = 2
        /\ Len(Asked(q).appliedBlocks) = 2
        /\ \A b \in Range(Asked(q).revertedBlocks) \cup Range(Asked(q).appliedBlocks) :
              /\ blockMap[b].SiacoinOutputDiffs # <<>>
              /\ blockMap[b].SiafundPoolDiffs # <<>>

\* C10: a returning ConsensusChange(i) call reports an error exactly when
\* i < 0 or i >= len(changeLog), and then returns the empty change and has
\* looked up no block.
C10_OutOfRange ==
    [][\A q \in Queriers :
          (pc[q] = "query" /\ pc'[q] = "returned") =>
              LET oor == arg[q] < 0 \/ arg[q] >= Len(changeLog) IN
              /\ ret'[q].err <=> oor
              /\ oor => /\ ret'[q].cc = EmptyConsensusChange
                        /\ ret'[q].lookups = <<>>]_vars

\* C10 witness: with a non-empty log, a call has failed for an index at or
\* beyond the end of the log
C10_Witness ==
    \E q \in Queriers :
        /\ pc[q] = "returned" /\ ret[q].err
        /\ Len(changeLog) >= 1
        /\ arg[q] >= Len(changeLog)

\* ------------------------------------------------- claims on error handling
\* a block ID recorded in entry e is not in the block store
MissingIn(e) ==
    \E b \in Range(e.revertedBlocks) \cup Range(e.appliedBlocks) :
        b \notin DOMAIN blockMap

\* the change of index i cannot be computed: OutOfRange or StoreInconsistency
ComputerFails(i) ==
    \/ i < 0 \/ i >= Len(changeLog)
    \/ MissingIn(changeLog[i + 1])

\* C11 (the claim as stated): a ConsensusChange call on an entry with a block
\* that is not in the store returns an error, and no subscriber is ever
\* handed a change computed from such an entry.
C11_StoreInconsistencyReported ==
    /\ \A q \in Queriers :
          (pc[q] = "returned" /\ arg[q] >= 0 /\ arg[q] < Len(changeLog)
              /\ MissingIn(changeLog[arg[q] + 1])) => ret[q].err
    /\ \A s \in Subs : \A j \in 1..Len(received[s]) :
          ~ComputerFails(received[s][j].i)

\* C12 (the claim as stated): a returning ConsensusChange call reports an
\* error exactly when the change could not be computed, and a notification
\* pass whose change could not be computed does not go on to the subscriber
\* callbacks.
C12_ErrorsPropagate ==
    [][/\ \A q \in Queriers :
             (pc[q] = "query" /\ pc'[q] = "returned") =>
                 (ret'[q].err <=> ComputerFails(arg[q]))
       /\ \A w \in Writers :
             (pc[w] = "notify" /\ ComputerFails(Len(changeLog) - 1)) =>
                 pc'[w] # "subscribers"]_vars

\* ------------------------------------------------------ claims on digests
\* C13: a digest subscriber has received nothing until its baseline; the
\* baseline step delivers (empty, the best path of heights 0..currentHeight
\* in ascending order) as the subscriber's first digest, and that first
\* digest stays the first one: no delta from a pass comes before it.
C13_BaselineStep ==
    \A d \in DSubs :
        /\ (pc[d] = "baseline" /\ pc'[d] = "unlock") =>
               digests'[d] = <<[reverted |-> <<>>, applied |-> blockPath]>>
        /\ digests[d] # <<>> =>
               (digests'[d] # <<>> /\ digests'[d][1] = digests[d][1])

Pos(seq, x) == CHOOSE k \in 1..Len(seq) : seq[k] = x

\* the digest of a change-log entry
DigestOf(e) == [reverted |-> e.revertedBlocks, applied |-> e.appliedBlocks]

\* number of entries in the log when d registered: every reorganisation
\* lengthens the best path by one block, and the baseline is that path
EntriesBefore(d) == Len(digests[d][1].applied) - 1

\* 1 when a pass is under way that has not yet called d, else 0
PendingDigest(d) ==
    IF \E w \in Writers :
          \/ pc[w] \in {"notify", "subscribers"}
          \/ pc[w] = "digests" /\ Pos(rng[w], d) >= idx[w]
    THEN 1 ELSE 0

\* C14: after its baseline a digest subscriber holds exactly one digest for
\* every entry appended since it registered, except the entry of a pass that
\* has not reached it yet (a pass calls digest subscribers in registration
\* order); the digests are in append order and each one is the revertedBlocks
\* and appliedBlocks of its own entry, the IDs of the blocks in the change the
\* full subscribers were given for that entry.
C14_OneDigestPerEntry ==
    /\ \A d \in AllDSubs :
          (pc[d] \in {"unlock", "done"}) =>
              /\ Len(digests[d]) - 1 =
                     Len(changeLog) - EntriesBefore(d) - PendingDigest(d)
              /\ \A k \in 2..Len(digests[d]) :
                     digests[d][k] = DigestOf(changeLog[EntriesBefore(d) + k - 1])
    /\ \A w \in Writers :
          pc[w] = "digests" =>
              /\ rng[w] = digestSubscribers
              /\ IDsOf(cc[w].RevertedBlocks) = changeLog[arg[w] + 1].revertedBlocks
              /\ IDsOf(cc[w].AppliedBlocks) = changeLog[arg[w] + 1].appliedBlocks
    /\ \A s \in Subs : \A j \in 1..Len(received[s]) :
          LET r == received[s][j]
          IN  DigestOf(changeLog[r.i + 1]) =
                  [reverted |-> IDsOf(r.cc.RevertedBlocks),
                   applied |-> IDsOf(r.cc.AppliedBlocks)]

\* a pass has called the first-registered digest subscriber and not yet the
\* second, after an earlier entry that only the first one was registered for
C14_Witness ==
    /\ digestSubscribers = <<"d2", "d1">>
    /\ Len(changeLog) = 2
    /\ changeLog[2].revertedBlocks # <<>>
    /\ pc["w1"] = "digests" /\ idx["w1"] = 2
    /\ Len(digests["d2"]) = 3
    /\ Len(digests["d1"]) = 1
    /\ Len(received["s1"]) >= 1

\* -------------------------------------------------- claims on concurrency
\* thread t is in a notification pass or a backfill with a subscriber
\* callback still to return
CallbackPending(t) ==
    /\ pc[t] \in {"subscribers", "digests", "backfill"}
    /\ idx[t] <= Len(rng[t])

\* C15: while a notification pass has a subscriber callback that has not
\* returned, a ConsensusChange(i) call can take the shared lock and a call
\* that holds it can return; the query step leaves the pass where it was.
C15_QueryDuringPass ==
    /\ [](\A w \in Writers, q \in Queriers :
             (Running /\ CallbackPending(w)) =>
                 /\ pc[q] \in {"idle", "returned"} =>
                        ENABLED QueryRLock(q, Len(changeLog) - 1)
                 /\ pc[q] = "query" => ENABLED QueryReturn(q))
    /\ [][\A w \in Writers, q \in Queriers :
             (CallbackPending(w) /\ pc[q] # pc'[q] /\ pc'[q] # "panic") =>
                 (CallbackPending(w)' /\ idx'[w] = idx[w]
                     /\ mu'.holder = w /\ mu'.demoted)]_vars

\* a query of the entry the pass is about was answered before the first
\* callback of that pass returned
C15_Witness ==
    \E w \in Writers, q \in Queriers :
        /\ pc[w] = "subscribers"
        /\ idx[w] = 1
        /\ Len(rng[w]) >= 1
        /\ pc[q] = "returned"
        /\ arg[q] = Len(changeLog) - 1
        /\ ~ret[q].err

\* C16 (the claim as stated): while another thread has a subscriber
\* callback that has not returned, a ConsensusSetSubscribe or
\* ConsensusSetDigestSubscribe call can register its subscriber.
C16_SubscribeNotBlocked ==
    \A t \in Threads :
        (Running /\ CallbackPending(t)) =>
            /\ \A s \in Subs \ {t} :
                   pc[s] = "idle" => ENABLED SubscribeRegister(s)
            /\ \A d \in DSubs \ {t} :
                   pc[d] = "idle" => ENABLED DigestRegister(d)

\* some other thread holds the lock: demoted, for a pass, a backfill or a
\* baseline, or shared, for a query
LockHeldBesides(t) ==
    \E u \in Threads \ {t} : InPass(u) \/ pc[u] = "query"

\* C16 (amended): a subscribe call registers only when no other thread holds
\* the lock: while a pass or another backfill has a callback pending the
\* registration is not possible, the call registers in a step taken with the
\* lock free, and with the lock free it can register.
C16_SubscribeWaitsForPass ==
    /\ [](\A s \in Subs \cup DSubs :
             (Running /\ pc[s] = "idle") =>
                 /\ (\E t \in Threads \ {s} : CallbackPending(t)) =>
                        /\ ~ENABLED SubscribeRegister(s)
                        /\ ~ENABLED DigestRegister(s)
                 /\ (~LockHeldBesides(s) /\ s \in Subs) =>
                        ENABLED SubscribeRegister(s)
                 /\ (~LockHeldBesides(s) /\ s \in DSubs) =>
                        ENABLED DigestRegister(s))
    /\ [][\A s \in Subs \cup DSubs :
             (pc[s] = "idle" /\ pc'[s] # "idle") =>
                 (~LockHeldBesides(s) /\ mu'.holder = s /\ mu'.demoted)]_vars

\* a subscriber registered by an earlier call has a callback of a pass
\* pending while the subscribe call of another thread waits
C16_Witness ==
    \E w \in Writers :
        /\ pc[w] = "digests"
        /\ idx[w] = 1
        /\ rng[w] = <<"d1">>
        /\ subscribers = <<"s1">>
        /\ pc["s2"] = "idle"
        /\ Len(changeLog) = 2

\* --------------------------------------------------- claims on frame effects
\* the step is the external append, by some appender
AppendStep == \E w \in Writers : pc[w] = "idle" /\ pc'[w] = "notify"

\* the step is the registration of ConsensusSetSubscribe by thread s
SubscribeStep(s) == pc[s] = "idle" /\ pc'[s] = "backfill"

\* the step is the registration of ConsensusSetDigestSubscribe by thread d
DigestSubscribeStep(d) == pc[d] = "idle" /\ pc'[d] = "baseline"

\* C17: only the external append changes the change log, and it adds one
\* entry at the end, so index i keeps denoting the same entry; every other
\* step leaves the log as it was. ConsensusSetSubscribe adds exactly its
\* subscriber at the end of the full-subscriber list, ConsensusSetDigestSubscribe
\* exactly its subscriber at the end of the digest-subscriber list, and no
\* other step changes either list, so nothing is ever removed.
C17_FrameOfLogAndRegistry ==
    [][/\ IF AppendStep
          THEN /\ Len(changeLog') = Len(changeLog) + 1
               /\ \A i \in 1..Len(changeLog) : changeLog'[i] = changeLog[i]
          ELSE changeLog' = changeLog
       /\ IF \E s \in Subs : SubscribeStep(s)
          THEN \E s \in Subs : /\ SubscribeStep(s)
                               /\ subscribers' = Append(subscribers, s)
          ELSE subscribers' = subscribers
       /\ IF \E d \in DSubs : DigestSubscribeStep(d)
          THEN \E d \in DSubs : /\ DigestSubscribeStep(d)
                                /\ digestSubscribers' = Append(digestSubscribers, d)
          ELSE digestSubscribers' = digestSubscribers]_vars

\* both subscribe operations, a query and two passes have run
C17_Witness ==
    /\ Len(changeLog) = 2
    /\ Len(subscribers) = 2
    /\ Len(digestSubscribers) = 1
    /\ \E q \in Queriers : pc[q] = "returned" /\ ~ret[q].err /\ arg[q] = 0
    /\ \A t \in Threads : ~InPass(t)
    /\ \E s \in Subs : Len(received[s]) = 2

\* C18: a callback that calls the append path on the thread that runs the
\* pass or the backfill never returns: the thread stays at the exclusive
\* Lock for ever, the demoted hold it waits for is its own and is never
\* released, and from then on no entry is appended and no subscriber is
\* registered by any thread.
C18_ReentrantAppendDeadlocks ==
    [][\A t \in Callers :
          pc[t] = "relock" =>
              /\ pc'[t] = "relock"
              /\ mu'.holder = t /\ mu'.demoted
              /\ changeLog' = changeLog
              /\ subscribers' = subscribers
              /\ digestSubscribers' = digestSubscribers
              /\ idx'[t] = idx[t]]_vars

\* a callback of a pass re-entered the append path, and another appender and
\* the subscribe calls wait behind it
C18_Witness ==
    /\ pc["w1"] = "relock"
    /\ idx["w1"] = 1
    /\ rng["w1"] = <<"s1">>
    /\ pc["w2"] = "lock"
    /\ pc["s2"] = "idle"
    /\ ~ENABLED (\E x \in Reorganisations : AcceptLocked("w2", x[1], x[2]))
    /\ ~ENABLED SubscribeRegister("s2")

\* ------------------------------------- claims on the notifier's argument
\* index of the last entry of the change log, -1 when the log is empty
LastIndex == Len(changeLog) - 1

\* C19: the change a pass computes and delivers is the change of the last
\* entry of the log at the time of the call, whatever entry was passed: the
\* compute step takes index len(changeLog)-1, on an empty log that index is
\* -1 and out of range (a panic in a debug build, the empty change in a
\* release build), and every callback of the pass carries that change.
C19_ComputeStep ==
    \A w \in Writers :
        (pc[w] = "notify" /\ pc'[w] # "notify") =>
            /\ arg'[w] = LastIndex
            /\ cc'[w] = computeConsensusChange(LastIndex).cc
            /\ changeLog = <<>> =>
                   /\ arg'[w] = -1
                   /\ computeConsensusChange(arg'[w]).err
                   /\ pc'[w] = (IF DEBUG THEN "panic" ELSE "subscribers")
                   /\ cc'[w] = EmptyConsensusChange

C19_DeliversLastEntry ==
    /\ [](\A w \in Writers :
             pc[w] \in {"subscribers", "digests"} =>
                 /\ arg[w] = LastIndex
                 /\ cc[w] = computeConsensusChange(LastIndex).cc
                 /\ (changeLog # <<>> /\ ce[w] = changeLog[Len(changeLog)]) =>
                        /\ IDsOf(cc[w].RevertedBlocks) = ce[w].revertedBlocks
                        /\ IDsOf(cc[w].AppliedBlocks) = ce[w].appliedBlocks)
    /\ [](\A s \in Subs : \A j \in 1..Len(received[s]) :
             received[s][j].by = "notify" =>
                 received[s][j].cc = computeConsensusChange(received[s][j].i).cc)
    /\ [][C19_ComputeStep]_vars

\* a pass called with an entry that is not the last one of the log has given
\* a subscriber the change of the last entry, not that of its argument
C19_Witness ==
    \E w \in Writers, s \in Subs :
        /\ pc[w] = "digests"
        /\ Len(changeLog) = 2
        /\ ce[w] = changeLog[1]
        /\ ce[w] # changeLog[2]
        /\ received[s] # <<>>
        /\ received[s][Len(received[s])].by = "notify"
        /\ IDsOf(received[s][Len(received[s])].cc.AppliedBlocks) =
               changeLog[2].appliedBlocks
        /\ IDsOf(cc[w].AppliedBlocks) # ce[w].appliedBlocks

\* ------------------------------------------- claims on the digest baseline
\* the path ID of some height 0..currentHeight cannot be read
PathUnreadable == \E h \in 0..blockHeight : getPath(h).err

\* C20: a digest subscriber is in the registry from the first step of
\* ConsensusSetDigestSubscribe on; if the path cannot be read the baseline
\* step makes no ProcessConsensusDigest call at all, panics in a debug build
\* and in a release build goes on to return normally; the subscriber stays
\* registered, and everything it has received after that are digests of
\* change-log entries, never a path from the genesis block.
C20_BaselineStep ==
    \A d \in DSubs :
        /\ (pc[d] = "idle" /\ pc'[d] # "idle") =>
               (pc'[d] = "baseline" /\ digests'[d] = <<>>
                   /\ digestSubscribers' = Append(digestSubscribers, d))
        /\ (pc[d] = "baseline" /\ pc'[d] # "baseline" /\ PathUnreadable) =>
               /\ digests'[d] = <<>>
               /\ pc'[d] = (IF DEBUG THEN "panic" ELSE "unlock")

C20_NoBaselineOnPathError ==
    /\ [](\A d \in DSubs :
             /\ pc[d] # "idle" => d \in Range(digestSubscribers)
             /\ (Running /\ pc[d] = "unlock") => ENABLED DigestReturn(d)
             /\ (PathUnreadable /\ pc[d] # "idle") =>
                    \A k \in 1..Len(digests[d]) :
                        /\ \E i \in 1..Len(changeLog) :
                               digests[d][k] = DigestOf(changeLog[i])
                        /\ digests[d][k].applied # <<>>
                        /\ digests[d][k].applied[1] # GenesisID)
    /\ [][C20_BaselineStep]_vars

\* release build, unreadable path: the call has returned, and the first
\* digest the subscriber ever received is the delta of a later entry
C20_Witness ==
    \E d \in DSubs :
        /\ PathUnreadable
        /\ ~DEBUG
        /\ pc[d] = "done"
        /\ d \in Range(digestSubscribers)
        /\ Len(changeLog) = 2
        /\ digests[d] = <<DigestOf(changeLog[2])>>

====
